---- MODULE Spec2Model ----
(***************************************************************************)
(* Model of the http solver of crates/solver                               *)
(*   solver/http_solver.rs      HttpSolver::solve, prepare_model, the      *)
(*                              model compiler and the instance cache      *)
(*   auction_preprocessing.rs   filter_orders_with_insufficient_fees       *)
(*                                                                         *)
(* Spec        concurrent HttpSolver::solve calls sharing one cache slot   *)
(* SpecFilter  one call of filter_orders_with_insufficient_fees            *)
(* SpecScan    one call of compute_fee_connected_tokens, pair by pair      *)
(* SpecCompile prepare_model run twice on one auction                      *)
(***************************************************************************)
EXTENDS Integers, Sequences, FiniteSets, TLC

VARIABLES
    instance_cache,  \* Option<InstanceData>: <<>> or <<[solve_id, model, context]>>
    lock_holder,     \* owner of the futures Mutex guard: <<>> or <<caller>>
    pc,              \* per caller: position inside solve
    auction,         \* per caller: the Auction argument of the running call
    orders,          \* per caller: the local `orders` (after the extend)
    instance,        \* per caller: the (model, context) bound at line 394
    timeout,         \* per caller: Option of the budget bound at line 411
    settled,         \* per caller: Option of the engine's answer (line 414)
    result,          \* per caller: Option of the value solve returned
    calls,           \* per caller: collaborator call counters of the running call
    now,             \* Instant::now()
    stale,           \* per caller: the entry its call read or wrote was replaced since
    filter,          \* the fee filter call: its inputs, position and outcome
    scan,            \* compute_fee_connected_tokens: the loop's locals
    compiler         \* prepare_model runs on one auction: inputs and outcomes

vars == <<instance_cache, lock_holder, pc, auction, orders, instance, timeout,
          settled, result, calls, now, stale, filter, scan, compiler>>

solveVars == <<instance_cache, lock_holder, pc, auction, orders, instance,
               timeout, settled, result, calls, now, stale>>

----------------------------------------------------------------------------
(* Bounds *)

MaxTime == 1         \* the clock runs over 0..MaxTime
MaxFee == 2          \* fee amounts and prices of the filter run over 0..MaxFee
MaxGas == 2          \* effective gas prices of the filter run over 0..MaxGas
MaxFactor == 2       \* surcharge factors of the filter run over 0..MaxFactor
MaxAge == 2          \* min_age and creation dates of the filter run over 0..MaxAge

Callers == {"a", "b"}
AuctionIds == {1, 2}

----------------------------------------------------------------------------
(* Option<T> *)

None == <<>>
Some(x) == <<x>>
IsSome(o) == o # <<>>
Unwrap(o) == o[1]

(* Result<T> *)
Ok(x) == [ok |-> TRUE, value |-> x]
Err(e) == [ok |-> FALSE, value |-> e]

----------------------------------------------------------------------------
(* Data: tokens, orders, liquidity *)

native_token == 0

LimitOrder(sell, buy, liq) ==
    [sell_token |-> sell, buy_token |-> buy,
     sell_amount |-> 2, buy_amount |-> 1,
     kind |-> "Sell", partially_fillable |-> FALSE,
     is_liquidity_order |-> liq,
     exchange |-> IF liq THEN "ZeroEx" ELSE "GnosisProtocol",
     unscaled_subsidized_fee |-> 1, scaled_unsubsidized_fee |-> 2]

\* TokenPair::new orders its two (distinct) tokens
TokenPair(a, b) == IF a < b THEN <<a, b>> ELSE <<b, a>>

ConstantProduct(a, b) ==
    [variant |-> "ConstantProduct", tokens |-> TokenPair(a, b),
     reserves |-> <<100, 100>>, fee |-> <<0, 1>>]

BalancerWeighted(a, b) ==
    [variant |-> "BalancerWeighted",
     reserves |-> [t \in {a, b} |-> [balance |-> 100, weight |-> 1]],
     fee |-> <<1, 100>>]

BalancerStable(a, b, exponent) ==
    [variant |-> "BalancerStable",
     reserves |-> [t \in {a, b} |-> [balance |-> 100, scaling_exponent |-> exponent]],
     amplification_parameter |-> <<1, 1>>, fee |-> <<1, 100>>]

LimitOrderLiquidity(order) == [variant |-> "LimitOrder", order |-> order]

IsLimitOrder(l) == l.variant = "LimitOrder"

\* Liquidity::all_token_pairs: the unordered pairs of a pool's tokens, none
\* for a passthrough limit order
all_token_pairs(l) ==
    IF l.variant = "ConstantProduct" THEN {l.tokens}
    ELSE IF l.variant = "LimitOrder" THEN {}
    ELSE {TokenPair(x[1], x[2]) :
            x \in {y \in (DOMAIN l.reserves) \X (DOMAIN l.reserves) : y[1] < y[2]}}

\* compute_scaling_rate: 10^(18 - exponent), an error when 18 - exponent
\* underflows
compute_scaling_rate(exponent) ==
    IF exponent > 18 THEN Err("underflow") ELSE Ok([exp10 |-> 18 - exponent])

----------------------------------------------------------------------------
(* The model compiler *)

SeqRange(s) == {s[i] : i \in 1 .. Len(s)}

map_tokens_for_solver(os, liquidity) ==
    UNION {{o.sell_token, o.buy_token} : o \in SeqRange(os)}
    \cup UNION {IF l.variant = "ConstantProduct" THEN {l.tokens[1], l.tokens[2]}
                ELSE IF l.variant = "LimitOrder"
                     THEN {l.order.sell_token, l.order.buy_token}
                     ELSE DOMAIN l.reserves : l \in SeqRange(liquidity)}

order_fee(order) ==
    [amount |-> IF order.is_liquidity_order THEN order.unscaled_subsidized_fee
                ELSE order.scaled_unsubsidized_fee,
     token |-> order.sell_token]

\* GasModel::gp_order_cost and the like: gas units of the category times the
\* gas price, in the native token
Cost(category, gas_model) ==
    [category |-> category, gas_price |-> gas_model.gas_price,
     token |-> gas_model.native_token]

\* the buffers collected all or none: one failed answer leaves no buffer
buffers_all_or_none(buffers_result) ==
    IF \A u \in DOMAIN buffers_result : buffers_result[u].ok
    THEN [t \in DOMAIN buffers_result |-> buffers_result[t].value]
    ELSE <<>>

\* buffers_result.into_iter().filter_map(..).collect(): only the Ok answers
buffers_of(buffers_result) ==
    [t \in {u \in DOMAIN buffers_result : buffers_result[u].ok}
        |-> buffers_result[t].value]

token_models(token_infos, price_estimates, buffers, gas_model) ==
    [address \in DOMAIN token_infos |->
        [decimals |-> token_infos[address].decimals,
         alias |-> token_infos[address].symbol,
         external_price |->
            IF address \in DOMAIN price_estimates
               /\ price_estimates[address].finite
            THEN Some(price_estimates[address].value) ELSE None,
         normalize_priority |-> Some(IF gas_model.native_token = address THEN 1 ELSE 0),
         internal_buffer |->
            IF address \in DOMAIN buffers THEN Some(buffers[address]) ELSE None]]

OrderModel(order, gas_model) ==
    [sell_token |-> order.sell_token,
     buy_token |-> order.buy_token,
     sell_amount |-> order.sell_amount,
     buy_amount |-> order.buy_amount,
     allow_partial_fill |-> order.partially_fillable,
     is_sell_order |-> order.kind = "Sell",
     fee |-> order_fee(order),
     cost |-> IF order.exchange = "GnosisProtocol"
              THEN Cost("gp_order", gas_model) ELSE Cost("zeroex_order", gas_model),
     is_liquidity_order |-> order.is_liquidity_order,
     mandatory |-> FALSE,
     has_atomic_execution |-> order.exchange # "GnosisProtocol"]

\* the order table keyed by an index that counts from 1
order_models_counted_from_one(os, fee_connected_tokens, gas_model) ==
    [index \in {j \in 1 .. Len(os) :
                    os[j].sell_token \in fee_connected_tokens
                    \/ os[j].buy_token \in fee_connected_tokens}
        |-> OrderModel(os[index], gas_model)]

\* the order table keyed by the index taken after the filter
order_models_renumbered(os, fee_connected_tokens, gas_model) ==
    LET kept == SelectSeq(os, LAMBDA o : o.sell_token \in fee_connected_tokens
                                         \/ o.buy_token \in fee_connected_tokens)
    IN  [index \in {i - 1 : i \in 1 .. Len(kept)} |-> OrderModel(kept[index + 1], gas_model)]

\* the order table of the orders with both tokens connected
order_models_both_connected(os, fee_connected_tokens, gas_model) ==
    [index \in {i - 1 : i \in {j \in 1 .. Len(os) :
                    os[j].sell_token \in fee_connected_tokens
                    /\ os[j].buy_token \in fee_connected_tokens}}
        |-> OrderModel(os[index + 1], gas_model)]

\* BTreeMap<usize, OrderModel>: keyed by the index `enumerate` gives, which
\* is taken before the filter
order_models(os, fee_connected_tokens, gas_model) ==
    [index \in {i - 1 : i \in {j \in 1 .. Len(os) :
                    os[j].sell_token \in fee_connected_tokens
                    \/ os[j].buy_token \in fee_connected_tokens}}
        |-> OrderModel(os[index + 1], gas_model)]

\* the `map` closure of amm_models: Result<AmmModel>
AmmModel(l, gas_model) ==
    IF l.variant = "ConstantProduct" THEN
        Ok([parameters |-> [kind |-> "ConstantProduct",
                            reserves |-> [t \in {l.tokens[1], l.tokens[2]} |->
                                IF t = l.tokens[1] THEN l.reserves[1] ELSE l.reserves[2]]],
            fee |-> l.fee, cost |-> Cost("uniswap", gas_model), mandatory |-> FALSE])
    ELSE IF l.variant = "BalancerWeighted" THEN
        Ok([parameters |-> [kind |-> "WeightedProduct", reserves |-> l.reserves],
            fee |-> l.fee, cost |-> Cost("balancer", gas_model), mandatory |-> FALSE])
    ELSE
        IF \E t \in DOMAIN l.reserves :
                ~compute_scaling_rate(l.reserves[t].scaling_exponent).ok
        THEN Err("error converting stable pool to solver model")
        ELSE Ok([parameters |->
                    [kind |-> "Stable",
                     reserves |-> [t \in DOMAIN l.reserves |-> l.reserves[t].balance],
                     scaling_rates |-> [t \in DOMAIN l.reserves |->
                        compute_scaling_rate(l.reserves[t].scaling_exponent).value],
                     amplification_parameter |-> l.amplification_parameter],
                 fee |-> l.fee, cost |-> Cost("balancer", gas_model),
                 mandatory |-> FALSE])

\* BTreeMap<usize, AmmModel>: the limit orders are filtered out first, then
\* the pools are enumerated, then the failed conversions are dropped
amm_models(liquidity, gas_model) ==
    LET pools == SelectSeq(liquidity, LAMBDA l : ~IsLimitOrder(l))
    IN  [index \in {i - 1 : i \in {j \in 1 .. Len(pools) :
                        AmmModel(pools[j], gas_model).ok}}
            |-> AmmModel(pools[index + 1], gas_model).value]

\* a closure that looks at the first token of the pair only
RetainPairFirstTokenOnly(pair, connected) ==
    IF pair[1] \in connected
    THEN [keep |-> FALSE, fee_connected_tokens |-> connected \cup {pair[2]}]
    ELSE [keep |-> TRUE, fee_connected_tokens |-> connected]

\* the closure of `pairs.retain` on one pair, lines 351-364: whether the
\* pair stays in the set, and the connected set after it; added_token is
\* set exactly when the pair does not stay
RetainPair(pair, connected) ==
    IF pair[1] \in connected
    THEN [keep |-> FALSE, fee_connected_tokens |-> connected \cup {pair[2]}]
    ELSE IF pair[2] \in connected
         THEN [keep |-> FALSE, fee_connected_tokens |-> connected \cup {pair[1]}]
         ELSE [keep |-> TRUE, fee_connected_tokens |-> connected]

\* a loop that stops only when no pair is left
LoopEndsOnlyWhenEmpty(pairs, added_token) == pairs = {}

\* a loop that stops after its first pass
LoopEndsAfterOnePass(pairs, added_token) == TRUE

\* the break of lines 365-367
LoopEnds(pairs, added_token) == pairs = {} \/ ~added_token

\* One `pairs.retain` pass of compute_fee_connected_tokens over the pairs
\* still to scan; the connected set grows while the pass runs.
\* Gives <<retained pairs, connected set, added_token>>.
RECURSIVE RetainPass(_, _, _, _)
RetainPass(todo, kept, connected, added) ==
    IF todo = {} THEN <<kept, connected, added>>
    ELSE LET pair == CHOOSE x \in todo : TRUE
             rest == todo \ {pair}
             retain == RetainPair(pair, connected)
         IN  IF retain.keep
             THEN RetainPass(rest, kept \cup {pair}, connected, added)
             ELSE RetainPass(rest, kept, retain.fee_connected_tokens, TRUE)

RECURSIVE FeeConnectedLoop(_, _)
FeeConnectedLoop(pairs, connected) ==
    LET pass == RetainPass(pairs, {}, connected, FALSE)
    IN  IF LoopEnds(pass[1], pass[3]) THEN pass[2]
        ELSE FeeConnectedLoop(pass[1], pass[2])

compute_fee_connected_tokens(liquidity, native) ==
    FeeConnectedLoop(UNION {all_token_pairs(l) : l \in SeqRange(liquidity)}, {native})

\* One `pairs.retain` pass that visits the pairs in the order of the
\* sequence `order`. Gives <<retained pairs, connected set, added_token>>.
RECURSIVE PassInOrder(_, _, _, _, _)
PassInOrder(order, pairs, kept, connected, added) ==
    IF order = <<>> THEN <<kept, connected, added>>
    ELSE IF Head(order) \notin pairs
         THEN PassInOrder(Tail(order), pairs, kept, connected, added)
         ELSE LET retain == RetainPair(Head(order), connected)
              IN  IF retain.keep
                  THEN PassInOrder(Tail(order), pairs, kept \cup {Head(order)},
                                   connected, added)
                  ELSE PassInOrder(Tail(order), pairs, kept,
                                   retain.fee_connected_tokens, TRUE)

\* a single pass in the order of the sequence
FeeConnectedOnePassInOrder(order, pairs, connected) ==
    PassInOrder(order, pairs, {}, connected, FALSE)[2]

\* the loop of lines 349-368 when the HashSet hands out its pairs in the
\* order of the sequence `order`
RECURSIVE FeeConnectedInOrder(_, _, _)
FeeConnectedInOrder(order, pairs, connected) ==
    LET pass == PassInOrder(order, pairs, {}, connected, FALSE)
    IN  IF LoopEnds(pass[1], pass[3]) THEN pass[2]
        ELSE FeeConnectedInOrder(order, pass[1], pass[2])

\* ExternalPrices::into_http_solver_prices: every price as an f64, which is
\* not finite when the price is out of the f64 range
F64Range == 3
into_http_solver_prices(external_prices) ==
    [t \in DOMAIN external_prices |->
        [finite |-> external_prices[t] <= F64Range, value |-> external_prices[t]]]

\* a context that forgets the orders
SettlementContextOfLiquidityOnly(os, liquidity) ==
    [orders |-> <<>>, liquidity |-> liquidity]

\* SettlementContext { orders, liquidity } of line 158: the arguments of
\* prepare_model as they were passed
SettlementContext(os, liquidity) == [orders |-> os, liquidity |-> liquidity]

\* HttpSolver::prepare_model after the join!, lines 107-158, with the set
\* that line 138 computed: always Ok((model, context))
compile_model(auction_id, os, liquidity, gas_price, external_prices, token_infos, buffers_result, fee_connected_tokens) ==
    LET buffers == buffers_of(buffers_result)
        price_estimates == into_http_solver_prices(external_prices)
        gas_model == [native_token |-> native_token, gas_price |-> gas_price]
        model == [tokens |-> token_models(token_infos, price_estimates, buffers, gas_model),
                  orders |-> order_models(os, fee_connected_tokens, gas_model),
                  amms |-> amm_models(liquidity, gas_model),
                  metadata |-> Some([environment |-> Some("network_name"),
                                     auction_id |-> Some(auction_id),
                                     gas_price |-> Some(gas_price),
                                     native_token |-> Some(native_token)])]
    IN  Ok([model |-> model, context |-> SettlementContext(os, liquidity)])

prepare_model(auction_id, os, liquidity, gas_price, external_prices, token_infos, buffers_result) ==
    compile_model(auction_id, os, liquidity, gas_price, external_prices, token_infos,
                  buffers_result, compute_fee_connected_tokens(liquidity, native_token))

----------------------------------------------------------------------------
(* The auctions the callers submit, and the collaborators' answers *)

OrdersA == <<LimitOrder(1, 0, FALSE)>>
OrdersB == <<LimitOrder(3, 4, FALSE), LimitOrder(2, 1, FALSE)>>

LiquidityA == <<ConstantProduct(0, 1), BalancerWeighted(1, 2)>>
LiquidityB == <<LimitOrderLiquidity(LimitOrder(2, 0, TRUE)), ConstantProduct(0, 1),
                BalancerStable(1, 2, 19), BalancerStable(0, 2, 6),
                LimitOrderLiquidity(LimitOrder(1, 2, TRUE))>>

PricesA == [t \in {0, 1} |-> 1]
PricesB == [t \in {0, 1, 2} |-> 2 * t]

Auction(id, os, liquidity, gas_price, deadline, external_prices) ==
    [id |-> id, orders |-> os, liquidity |-> liquidity, gas_price |-> gas_price,
     deadline |-> deadline, external_prices |-> external_prices]

\* Auction 1 comes with no orders and with two different sets of orders,
\* liquidity, gas price and prices; auction 2 with one
Auctions ==
    UNION { { Auction(1, <<>>, LiquidityB, 1, deadline, PricesA),
              Auction(1, OrdersA, LiquidityA, 1, deadline, PricesA),
              Auction(1, OrdersB, LiquidityB, 2, deadline, PricesB),
              Auction(2, OrdersA, LiquidityA, 1, deadline, PricesA) } :
            deadline \in 0 .. MaxTime }

\* TokenInfoFetching::get_token_infos as the tests mock it
get_token_infos(tokens) ==
    [t \in tokens |-> [decimals |-> Some(18), symbol |-> Some("CAT")]]

\* BufferRetrieving::get_buffers: a balance or a per-token error
get_buffers(tokens) ==
    [t \in tokens |-> IF t = 1 THEN Err("Erc20 transaction failure")
                      ELSE IF t = 2 THEN Err("other")
                      ELSE Ok(42)]

\* HttpSolverApi::solve answers
EngineAnswers ==
    { Err("engine failure"),
      Ok([has_execution_plan |-> FALSE]),
      Ok([has_execution_plan |-> TRUE]) }

\* settlement::convert_settlement
convert_settlement(solution, context, succeeds) ==
    IF succeeds THEN Ok([solution |-> solution, context |-> context])
    ELSE Err("conversion failure")

----------------------------------------------------------------------------
(* HttpSolver::solve *)

NoCalls == [token_infos |-> 0, buffers |-> 0, engine |-> 0, convert |-> 0]

NoFilter == [pc |-> "off"]
NoScan == [pc |-> "off"]
NoCompiler == [pc |-> "off"]

Init ==
    /\ instance_cache = None
    /\ lock_holder = None
    /\ pc = [p \in Callers |-> "idle"]
    /\ auction = [p \in Callers |-> None]
    /\ orders = [p \in Callers |-> <<>>]
    /\ instance = [p \in Callers |-> None]
    /\ timeout = [p \in Callers |-> None]
    /\ settled = [p \in Callers |-> None]
    /\ result = [p \in Callers |-> None]
    /\ calls = [p \in Callers |-> NoCalls]
    /\ now = 0
    /\ stale = [p \in Callers |-> FALSE]
    /\ filter = NoFilter
    /\ scan = NoScan
    /\ compiler = NoCompiler

\* the passthrough limit orders appended last one first
ExtendOrdersLastFirst(os, liquidity) ==
    LET limit == SelectSeq(liquidity, IsLimitOrder)
    IN  os \o [i \in 1 .. Len(limit) |-> limit[Len(limit) + 1 - i].order]

\* lines 389-392: the caller's orders, then the passthrough limit orders
ExtendOrders(os, liquidity) ==
    LET limit == SelectSeq(liquidity, IsLimitOrder)
    IN  os \o [i \in 1 .. Len(limit) |-> limit[i].order]

\* the emptiness test moved after the extend of lines 389-392
NothingToSolveAfterExtend(a) == ExtendOrders(a.orders, a.liquidity) = <<>>

\* line 386: orders.is_empty()
NothingToSolve(a) == a.orders = <<>>

\* lines 386-395: the call up to self.instance_cache.lock().await, or its
\* return with no settlement.  The argument of a call that returned here
\* stays in `auction` until the caller's next call.
Solve(p, a) ==
    /\ pc[p] \in {"idle", "done"}
    /\ calls' = [calls EXCEPT ![p] = NoCalls]
    /\ auction' = [auction EXCEPT ![p] = Some(a)]
    /\ settled' = [settled EXCEPT ![p] = None]
    /\ IF NothingToSolve(a)
       THEN /\ result' = [result EXCEPT ![p] = Some(Ok(<<>>))]
            /\ pc' = [pc EXCEPT ![p] = "done"]
            /\ UNCHANGED orders
       ELSE /\ orders' = [orders EXCEPT ![p] = ExtendOrders(a.orders, a.liquidity)]
            /\ result' = [result EXCEPT ![p] = None]
            /\ pc' = [pc EXCEPT ![p] = "lock"]
    /\ UNCHANGED <<instance_cache, lock_holder, instance, timeout, now, stale, filter, scan, compiler>>

\* a guard that is dropped between the check and the write excludes nobody
LockNeverHeld == TRUE

\* the futures Mutex gives the guard to one waiter at a time
LockFree == lock_holder = None

\* the comparison of line 397 inverted
IsCachedOtherId(id) == IsSome(instance_cache) /\ Unwrap(instance_cache).solve_id # id

\* line 397: Some(data) if data.solve_id == id
IsCached(id) == IsSome(instance_cache) /\ Unwrap(instance_cache).solve_id = id

\* Instant::saturating_duration_since in its place: never None
saturating_duration_since(instant, earlier) ==
    Some(IF earlier > instant THEN 0 ELSE instant - earlier)

\* Instant::checked_duration_since: None when `earlier` is later than self
checked_duration_since(instant, earlier) ==
    IF earlier > instant THEN None ELSE Some(instant - earlier)

\* lines 411-414, which run in the same poll as the end of the cache block:
\* the error returned (the locals dropped), or the budget computed and the
\* engine request sent with the model of `bound`
AfterCache(p, bound) ==
    LET budget == checked_duration_since(Unwrap(auction[p]).deadline, now)
    IN  IF budget = None
        THEN /\ result' = [result EXCEPT ![p] = Some(Err("no time left to send request"))]
             /\ pc' = [pc EXCEPT ![p] = "done"]
             /\ instance' = [instance EXCEPT ![p] = None]
             /\ auction' = [auction EXCEPT ![p] = None]
             /\ orders' = [orders EXCEPT ![p] = <<>>]
             /\ UNCHANGED <<timeout>>
             /\ calls' = calls
        ELSE /\ timeout' = [timeout EXCEPT ![p] = budget]
             /\ calls' = [calls EXCEPT ![p].engine = @ + 1]
             /\ pc' = [pc EXCEPT ![p] = "engine"]
             /\ instance' = [instance EXCEPT ![p] = Some(bound)]
             /\ UNCHANGED <<result, auction, orders>>

\* lines 395-397, 410-414: the guard taken, the entry found and cloned
CacheHit(p) ==
    /\ pc[p] = "lock"
    /\ LockFree
    /\ IsCached(Unwrap(auction[p]).id)
    /\ AfterCache(p, [model |-> Unwrap(instance_cache).model,
                      context |-> Unwrap(instance_cache).context])
    /\ UNCHANGED <<instance_cache, lock_holder, settled, now, stale, filter, scan, compiler>>

\* a miss that starts prepare_model without taking the guard
CacheMissWithoutGuard(p) ==
    /\ pc[p] = "lock"
    /\ ~IsCached(Unwrap(auction[p]).id)
    /\ calls' = [calls EXCEPT ![p].token_infos = @ + 1, ![p].buffers = @ + 1]
    /\ pc' = [pc EXCEPT ![p] = "join"]
    /\ UNCHANGED <<instance_cache, lock_holder, auction, orders, instance, timeout,
                   settled, result, now, stale, filter, scan, compiler>>

\* lines 395-401, 95-105: the guard taken, no entry for the id, prepare_model
\* entered and both fetches of its join! started
CacheMiss(p) ==
    /\ pc[p] = "lock"
    /\ LockFree
    /\ ~IsCached(Unwrap(auction[p]).id)
    /\ lock_holder' = Some(p)
    /\ calls' = [calls EXCEPT ![p].token_infos = @ + 1, ![p].buffers = @ + 1]
    /\ pc' = [pc EXCEPT ![p] = "join"]
    /\ UNCHANGED <<instance_cache, auction, orders, instance, timeout, settled,
                   result, now, stale, filter, scan, compiler>>

\* the deadline looked at before the write: a late call stores nothing
StoreUnlessLate(id, compilation) ==
    IF \E p \in Callers : lock_holder = Some(p) /\ Unwrap(auction[p]).deadline < now
    THEN instance_cache
    ELSE Some([solve_id |-> id, model |-> compilation.model,
               context |-> compilation.context])

\* get_or_insert in place of the assignment: a filled slot is kept
StoreIfEmpty(id, compilation) ==
    IF IsSome(instance_cache) THEN instance_cache
    ELSE Some([solve_id |-> id, model |-> compilation.model,
               context |-> compilation.context])

\* a field-wise update of a filled slot that leaves the context behind
StoreKeepingContext(id, compilation) ==
    Some([solve_id |-> id, model |-> compilation.model,
          context |-> IF IsSome(instance_cache) THEN Unwrap(instance_cache).context
                      ELSE compilation.context])

\* lines 402-406: *guard = Some(InstanceData { .. })
StoreInstance(id, compilation) ==
    Some([solve_id |-> id, model |-> compilation.model, context |-> compilation.context])

\* what prepare_model returns for the running call of p
Compilation(a) ==
    LET os == ExtendOrders(a.orders, a.liquidity)
        tokens == map_tokens_for_solver(os, a.liquidity)
    IN  prepare_model(a.id, os, a.liquidity, a.gas_price, a.external_prices,
                      get_token_infos(tokens), get_buffers(tokens))

\* lines 96-158, 402-414: both fetches answered, the model built, the entry
\* written, the guard dropped
Compiled(p) ==
    /\ pc[p] = "join"
    /\ lock_holder = Some(p)
    /\ LET a == Unwrap(auction[p])
           tokens == map_tokens_for_solver(orders[p], a.liquidity)
           compilation == prepare_model(a.id, orders[p], a.liquidity, a.gas_price,
                                        a.external_prices, get_token_infos(tokens),
                                        get_buffers(tokens)).value
       IN  /\ instance_cache' = StoreInstance(a.id, compilation)
           /\ AfterCache(p, compilation)
           /\ stale' = [q \in Callers |->
                    q # p /\ (stale[q] \/ (pc[q] \in {"engine", "convert"}
                                            /\ Unwrap(auction[q]).id # a.id))]
    /\ lock_holder' = None
    /\ UNCHANGED <<settled, now, filter, scan, compiler>>

\* solve returns after the engine request: its arguments and locals are
\* dropped (the engine's answer stays visible beside the result)
Return(p) ==
    /\ auction' = [auction EXCEPT ![p] = None]
    /\ orders' = [orders EXCEPT ![p] = <<>>]
    /\ instance' = [instance EXCEPT ![p] = None]
    /\ timeout' = [timeout EXCEPT ![p] = None]
    /\ stale' = [stale EXCEPT ![p] = FALSE]

\* unwrap_or_default in place of the map: a failure becomes an empty list
SettlementsOrEmpty(converted) ==
    IF converted.ok THEN Ok(<<converted.value>>) ELSE Ok(<<>>)

\* line 421: .map(|settlement| vec![settlement])
Settlements(converted) ==
    IF converted.ok THEN Ok(<<converted.value>>) ELSE converted

\* lines 414-421: the engine's answer; solve returns unless the conversion
\* is called
EngineAnswer(p, answer) ==
    /\ pc[p] = "engine"
    /\ settled' = [settled EXCEPT ![p] = Some(answer)]
    /\ IF ~answer.ok
       THEN /\ result' = [result EXCEPT ![p] = Some(Err(answer.value))]
            /\ pc' = [pc EXCEPT ![p] = "done"]
            /\ calls' = calls
            /\ Return(p)
       ELSE IF ~answer.value.has_execution_plan
       THEN /\ result' = [result EXCEPT ![p] = Some(Ok(<<>>))]
            /\ pc' = [pc EXCEPT ![p] = "done"]
            /\ calls' = calls
            /\ Return(p)
       ELSE /\ calls' = [calls EXCEPT ![p].convert = @ + 1]
            /\ pc' = [pc EXCEPT ![p] = "convert"]
            /\ UNCHANGED <<result, instance, timeout, auction, orders, stale>>
    /\ UNCHANGED <<instance_cache, lock_holder, now, filter, scan, compiler>>

\* a conversion step that empties the slot when the conversion fails
ConvertAnswerClearingSlot(p, succeeds) ==
    /\ pc[p] = "convert"
    /\ result' = [result EXCEPT ![p] =
            Some(Settlements(convert_settlement(Unwrap(settled[p]).value,
                                                Unwrap(instance[p]).context, succeeds)))]
    /\ pc' = [pc EXCEPT ![p] = "done"]
    /\ Return(p)
    /\ instance_cache' = IF succeeds THEN instance_cache ELSE None
    /\ UNCHANGED <<lock_holder, settled, calls, now, filter, scan, compiler>>

\* lines 419-421: the conversion's answer, wrapped in a vec, and the return
ConvertAnswer(p, succeeds) ==
    /\ pc[p] = "convert"
    /\ result' = [result EXCEPT ![p] =
            Some(Settlements(convert_settlement(Unwrap(settled[p]).value,
                                                Unwrap(instance[p]).context, succeeds)))]
    /\ pc' = [pc EXCEPT ![p] = "done"]
    /\ Return(p)
    /\ UNCHANGED <<instance_cache, lock_holder, settled, calls, now, filter, scan, compiler>>

\* Instant::now() advances
Tick ==
    /\ now < MaxTime
    /\ now' = now + 1
    /\ UNCHANGED <<instance_cache, lock_holder, pc, auction, orders, instance,
                   timeout, settled, result, calls, stale, filter, scan, compiler>>

Next ==
    \/ \E p \in Callers, a \in Auctions : Solve(p, a)
    \/ \E p \in Callers : CacheHit(p)
    \/ \E p \in Callers : CacheMiss(p)
    \/ \E p \in Callers : Compiled(p)
    \/ \E p \in Callers, answer \in EngineAnswers : EngineAnswer(p, answer)
    \/ \E p \in Callers, succeeds \in BOOLEAN : ConvertAnswer(p, succeeds)
    \/ Tick

Spec == Init /\ [][Next]_vars

\* the steps of a running call of p: the guard taken on a hit or a miss
\* (line 395), the end of prepare_model, the engine's and the conversion's
\* answers
Step(p) ==
    \/ CacheHit(p)
    \/ CacheMiss(p)
    \/ Compiled(p)
    \/ \E answer \in EngineAnswers : EngineAnswer(p, answer)
    \/ \E succeeds \in BOOLEAN : ConvertAnswer(p, succeeds)

\* A call that can take its next step takes it: the executor polls a task
\* that is ready, and the services, the engine and the conversion answer.
\* Nothing obliges a caller to call solve, nor time to pass. The futures
\* Mutex promises no order among the calls that want the guard, so the
\* fairness of the lock step is the weak one.
Fairness == \A p \in Callers : WF_vars(Step(p))

\* the calls of the fair specification: one payload for each auction id,
\* with the earliest and the latest deadline
FairAuctions ==
    { Auction(id, OrdersA, LiquidityA, 1, deadline, PricesA) :
        id \in AuctionIds, deadline \in {0, MaxTime} }

NextFair ==
    \/ \E p \in Callers, a \in FairAuctions : Solve(p, a)
    \/ \E p \in Callers : Step(p)
    \/ Tick

SpecFair == Init /\ [][NextFair]_vars /\ Fairness

----------------------------------------------------------------------------
(* filter_orders_with_insufficient_fees *)

\* model::order::Order, the fields the filter reads; token 2 has no
\* external price
Orders ==
    [sell_token : {1, 2}, fee_amount : 0 .. MaxFee, creation_date : 0 .. MaxAge]

OrderLists ==
    {<<>>} \cup {<<o>> : o \in Orders} \cup {<<o1, o2>> : o1 \in Orders, o2 \in Orders}

\* Utc::now(): the orders were created at or before it
utc_now == MaxAge

\* f64 division of two non-negative numbers, kept as a fraction: n/0 is
\* infinite for n > 0 and NaN for n = 0
f64_div(n, d) == [n |-> n, d |-> d]

\* a finite f64 > a quotient (never true of an infinite or NaN threshold)
f64_gt(x, quotient) == quotient.d # 0 /\ x * quotient.d > quotient.n

\* a finite f64 >= a quotient (never true of an infinite or NaN threshold)
f64_ge(x, quotient) == quotient.d # 0 /\ x * quotient.d >= quotient.n

\* ExternalPrices::try_get_native_amount: the price times the amount, None
\* without a price for the token
try_get_native_amount(external_prices, token, amount) ==
    IF token \in DOMAIN external_prices THEN Some(external_prices[token] * amount)
    ELSE None

\* ToPrimitive::to_f64 of the rational amount: None out of range
to_f64(amount) == IF amount > F64Range THEN None ELSE Some(amount)

order_native_full_fee_amount(order, external_prices) ==
    LET amount == try_get_native_amount(external_prices, order.sell_token,
                                        order.fee_amount)
    IN  IF amount = None THEN Err("missing external price")
        ELSE IF to_f64(Unwrap(amount)) = None
             THEN Err("error converting rational amount to float")
             ELSE Ok(Unwrap(to_f64(Unwrap(amount))))

\* a subtraction that stops at the first representable instant
saturating_sub_signed(instant, duration) ==
    IF duration > instant THEN Some(0) ELSE Some(instant - duration)

\* DateTime::checked_sub_signed: None below the first representable instant,
\* which is instant 0 here
checked_sub_signed(instant, duration) ==
    IF duration > instant THEN None ELSE Some(instant - duration)

\* the closure of orders.retain, lines 41-77
Retain(order, external_prices, min_native_full_fee, min_creation_time) ==
    LET native_full_fee == order_native_full_fee_amount(order, external_prices)
    IN  IF ~native_full_fee.ok THEN FALSE
        ELSE IF order.creation_date >= min_creation_time THEN TRUE
        ELSE f64_ge(native_full_fee.value, min_native_full_fee)

RECURSIVE Reverse(_)
Reverse(s) == IF s = <<>> THEN <<>> ELSE Append(Reverse(Tail(s)), Head(s))

\* the filter with the kept orders collected back to front
filter_orders_collected_in_reverse(os, external_prices, estimate, max_gas_surcharge_factor, min_age, instant) ==
    IF ~estimate.ok
    THEN [orders |-> os, result |-> Err("failed to estimate gas price for solving")]
    ELSE LET min_native_full_fee == f64_div(estimate.value, max_gas_surcharge_factor)
             min_creation_time == checked_sub_signed(instant, min_age)
         IN  IF min_creation_time = None
             THEN [orders |-> os,
                   result |-> Err("overflowed min order surcharge filtering age")]
             ELSE [orders |->
                       Reverse(SelectSeq(os, LAMBDA o : Retain(o, external_prices,
                                                       min_native_full_fee,
                                                       Unwrap(min_creation_time)))),
                   result |-> Ok("unit")]

\* lines 21-79: the orders left in the collection and the Result returned
filter_orders_with_insufficient_fees(os, external_prices, estimate, max_gas_surcharge_factor, min_age, instant) ==
    IF ~estimate.ok
    THEN [orders |-> os, result |-> Err("failed to estimate gas price for solving")]
    ELSE LET min_native_full_fee == f64_div(estimate.value, max_gas_surcharge_factor)
             min_creation_time == checked_sub_signed(instant, min_age)
         IN  IF min_creation_time = None
             THEN [orders |-> os,
                   result |-> Err("overflowed min order surcharge filtering age")]
             ELSE [orders |->
                       SelectSeq(os, LAMBDA o : Retain(o, external_prices,
                                                       min_native_full_fee,
                                                       Unwrap(min_creation_time))),
                   result |-> Ok("unit")]

\* GasPriceEstimating::estimate answers: a failure or an effective gas price
GasEstimates == {Err("estimation failed")} \cup {Ok(g) : g \in 0 .. MaxGas}

InitFilter ==
    /\ instance_cache = None
    /\ lock_holder = None
    /\ pc = [p \in Callers |-> "idle"]
    /\ auction = [p \in Callers |-> None]
    /\ orders = [p \in Callers |-> <<>>]
    /\ instance = [p \in Callers |-> None]
    /\ timeout = [p \in Callers |-> None]
    /\ settled = [p \in Callers |-> None]
    /\ result = [p \in Callers |-> None]
    /\ calls = [p \in Callers |-> NoCalls]
    /\ now = 0
    /\ stale = [p \in Callers |-> FALSE]
    /\ filter \in [pc : {"estimate"},
                   given : OrderLists,
                   orders : {<<>>},
                   external_prices : {[t \in {1} |-> price] : price \in 0 .. MaxFee},
                   max_gas_surcharge_factor : 0 .. MaxFactor,
                   min_age : 0 .. MaxAge + 1,
                   estimate : {None},
                   result : {None}]
    /\ filter.orders = <<>>
    /\ scan = NoScan
    /\ compiler = NoCompiler

\* the estimate answered (line 23) and the rest of the call, which has no
\* further await
FilterOrders(estimate) ==
    /\ filter.pc = "estimate"
    /\ LET out == filter_orders_with_insufficient_fees(
                    filter.given, filter.external_prices, estimate,
                    filter.max_gas_surcharge_factor, filter.min_age, utc_now)
       IN  filter' = [filter EXCEPT !.pc = "done", !.estimate = Some(estimate),
                                    !.orders = out.orders,
                                    !.result = Some(out.result)]
    /\ UNCHANGED <<solveVars, scan, compiler>>

NextFilter == \E estimate \in GasEstimates : FilterOrders(estimate)

SpecFilter == InitFilter /\ [][NextFilter]_vars

----------------------------------------------------------------------------
(* compute_fee_connected_tokens, one pair of `pairs.retain` at a time *)

MaxToken == 4        \* the tokens of the pairs run over 0..MaxToken
MaxPairs == 3        \* at most MaxPairs token pairs in the liquidity

ScanTokens == 0 .. MaxToken

\* the pairs `all_token_pairs` can give: two different tokens, unordered
AllPairs == {TokenPair(x[1], x[2]) : x \in {y \in ScanTokens \X ScanTokens : y[1] < y[2]}}

PairSets == {ps \in SUBSET AllPairs : Cardinality(ps) <= MaxPairs}

\* every variable of the solve calls at rest
SolveIdle ==
    /\ instance_cache = None
    /\ lock_holder = None
    /\ pc = [p \in Callers |-> "idle"]
    /\ auction = [p \in Callers |-> None]
    /\ orders = [p \in Callers |-> <<>>]
    /\ instance = [p \in Callers |-> None]
    /\ timeout = [p \in Callers |-> None]
    /\ settled = [p \in Callers |-> None]
    /\ result = [p \in Callers |-> None]
    /\ calls = [p \in Callers |-> NoCalls]
    /\ now = 0
    /\ stale = [p \in Callers |-> FALSE]

\* lines 344-350: the pairs collected, the set seeded with the native
\* token, the first pass about to start
InitScan ==
    /\ SolveIdle
    /\ filter = NoFilter
    /\ compiler = NoCompiler
    /\ \E given \in PairSets, native \in ScanTokens :
        scan = [pc |-> "retain", given |-> given, native |-> native,
                pairs |-> given, todo |-> given,
                fee_connected_tokens |-> {native},
                added_token |-> FALSE, passes |-> 1]

\* `pairs.retain` visits one more pair of the set, in the set's order,
\* which is any order
ScanPair(pair) ==
    /\ scan.pc = "retain"
    /\ pair \in scan.todo
    /\ LET retain == RetainPair(pair, scan.fee_connected_tokens)
       IN  scan' = [scan EXCEPT
                      !.todo = @ \ {pair},
                      !.pairs = IF retain.keep THEN @ ELSE @ \ {pair},
                      !.fee_connected_tokens = retain.fee_connected_tokens,
                      !.added_token = @ \/ ~retain.keep]
    /\ UNCHANGED <<solveVars, filter, compiler>>

\* lines 365-367 after the pass: break, or loop into the next pass
EndOfPass ==
    /\ scan.pc = "retain"
    /\ scan.todo = {}
    /\ IF LoopEnds(scan.pairs, scan.added_token)
       THEN scan' = [scan EXCEPT !.pc = "done"]
       ELSE scan' = [scan EXCEPT !.todo = scan.pairs, !.added_token = FALSE,
                                 !.passes = @ + 1]
    /\ UNCHANGED <<solveVars, filter, compiler>>

NextScan ==
    \/ \E pair \in AllPairs : ScanPair(pair)
    \/ EndOfPass

SpecScan == InitScan /\ [][NextScan]_vars

----------------------------------------------------------------------------
(* prepare_model run twice on one auction with the same service answers *)

MaxOrders == 3       \* at most MaxOrders orders passed to prepare_model
MaxLiquidity == 3    \* at most MaxLiquidity liquidity sources passed to it

\* the sequences over S of length at most n
RECURSIVE SeqsUpTo(_, _)
SeqsUpTo(S, n) ==
    IF n = 0 THEN {<<>>}
    ELSE LET shorter == SeqsUpTo(S, n - 1)
         IN  shorter \cup {Append(q, x) : q \in shorter, x \in S}

\* user orders between tokens near to and far from the native token
CompileOrderKinds ==
    {LimitOrder(1, 0, FALSE), LimitOrder(2, 3, FALSE), LimitOrder(3, 2, FALSE),
     LimitOrder(3, 4, FALSE)}

\* pools of each variant, a stable pool whose conversion fails, a pool away
\* from the native token and a passthrough limit order
CompileLiquidityKinds ==
    {ConstantProduct(0, 1), BalancerWeighted(1, 2), BalancerStable(1, 2, 19),
     ConstantProduct(3, 4), LimitOrderLiquidity(LimitOrder(2, 0, TRUE))}

\* every order list with some liquidity lists, and every liquidity list
\* with some order lists
CompileInputs ==
    (SeqsUpTo(CompileOrderKinds, MaxOrders) \X {<<>>, LiquidityA, LiquidityB})
    \cup ({<<>>, OrdersA, OrdersB} \X SeqsUpTo(CompileLiquidityKinds, MaxLiquidity))

\* prices with a token out of the f64 range; tokens 3 and 4 have no price
PricesOutOfRange == [t \in {0, 1, 2} |-> IF t = 1 THEN F64Range + 1 ELSE 1]

\* BufferRetrieving::get_buffers when every balance is read
get_buffers_ok(tokens) == [t \in tokens |-> Ok(42)]

PairsOf(liquidity) == UNION {all_token_pairs(l) : l \in SeqRange(liquidity)}

\* the orders in which a HashSet may hand out its elements
ScanOrders(pairs) ==
    {order \in [1 .. Cardinality(pairs) -> pairs] :
        \A i, j \in 1 .. Cardinality(pairs) : order[i] = order[j] => i = j}

InitCompile ==
    /\ SolveIdle
    /\ filter = NoFilter
    /\ scan = NoScan
    /\ \E input \in CompileInputs,
          external_prices \in {PricesA, PricesOutOfRange},
          all_read \in BOOLEAN :
        LET tokens == map_tokens_for_solver(input[1], input[2])
        IN  compiler = [pc |-> "first",
                        auction_id |-> 1,
                        orders |-> input[1],
                        liquidity |-> input[2],
                        gas_price |-> 1,
                        external_prices |-> external_prices,
                        token_infos |-> get_token_infos(tokens),
                        buffers_result |-> IF all_read THEN get_buffers_ok(tokens)
                                           ELSE get_buffers(tokens),
                        first |-> None,
                        second |-> None]

\* one run of prepare_model, lines 95-158: the services answer as they did
\* before and the pairs come out of the HashSet in the order `order`
PrepareModel(order) ==
    /\ compiler.pc \in {"first", "second"}
    /\ order \in ScanOrders(PairsOf(compiler.liquidity))
    /\ LET fee_connected_tokens ==
               FeeConnectedInOrder(order, PairsOf(compiler.liquidity), {native_token})
           run == compile_model(compiler.auction_id, compiler.orders,
                                compiler.liquidity, compiler.gas_price,
                                compiler.external_prices, compiler.token_infos,
                                compiler.buffers_result, fee_connected_tokens)
       IN  IF compiler.pc = "first"
           THEN compiler' = [compiler EXCEPT !.pc = "second", !.first = Some(run)]
           ELSE compiler' = [compiler EXCEPT !.pc = "done", !.second = Some(run)]
    /\ UNCHANGED <<solveVars, filter, scan>>

NextCompile ==
    \E order \in ScanOrders(PairsOf(compiler.liquidity)) : PrepareModel(order)

SpecCompile == InitCompile /\ [][NextCompile]_vars

----------------------------------------------------------------------------
(* Properties of HttpSolver::solve and the instance cache *)

AuctionId(p) == Unwrap(auction[p]).id
PastCache(p) == pc[p] \in {"engine", "convert"}
Ran_prepare_model(p) == calls[p].token_infos = 1 /\ calls[p].buffers = 1
SlotHolds(id) == instance_cache # None /\ Unwrap(instance_cache).solve_id = id

\* C1: of the solve calls in flight for one auction id whose entry has not
\* been replaced since they read or wrote it, at most one ran prepare_model
\* (one token-info and one buffer call), and all of them hold the same model
\* and context; while one call compiles, no other call compiles, and a call
\* for the same id that is past the cache has lost its entry.
C1_OneCompilationPerId ==
    /\ \A p \in Callers : calls[p].token_infos \in {0, 1}
                          /\ calls[p].buffers = calls[p].token_infos
    /\ \A p, q \in Callers :
        (p # q /\ PastCache(p) /\ PastCache(q) /\ AuctionId(p) = AuctionId(q)
            /\ ~stale[p] /\ ~stale[q])
        => /\ ~(Ran_prepare_model(p) /\ Ran_prepare_model(q))
           /\ instance[p] = instance[q]
    /\ \A p, q \in Callers :
        (p # q /\ pc[p] = "join")
        => /\ pc[q] # "join"
           /\ (PastCache(q) /\ AuctionId(q) = AuctionId(p)) => stale[q]

\* two calls in flight for one id with different orders: one compiled, the
\* other took its entry
C1_Witness ==
    \E p, q \in Callers :
        /\ p # q /\ PastCache(p) /\ PastCache(q) /\ AuctionId(p) = AuctionId(q)
        /\ ~stale[p] /\ ~stale[q]
        /\ Ran_prepare_model(p) /\ ~Ran_prepare_model(q)
        /\ Unwrap(auction[p]).orders # Unwrap(auction[q]).orders
        /\ instance[p] = instance[q]

\* C2: a call that passes the cache block while the slot holds an entry of
\* its auction id calls neither the token-info nor the buffer service, leaves
\* the slot as it is, and binds the stored model and context.
C2_HitUsesStoredEntry ==
    [][\A p \in Callers :
        (pc[p] = "lock" /\ pc'[p] # "lock" /\ SlotHolds(AuctionId(p)))
        => /\ pc'[p] \in {"engine", "done"}
           /\ calls'[p].token_infos = 0 /\ calls'[p].buffers = 0
           /\ instance_cache' = instance_cache
           /\ lock_holder' = lock_holder
           /\ pc'[p] = "engine" =>
                instance'[p] = Some([model |-> Unwrap(instance_cache).model,
                                     context |-> Unwrap(instance_cache).context])]_vars

\* a call bound to an entry that another call's orders and gas price made
C2_Witness ==
    \E p \in Callers :
        /\ pc[p] = "engine" /\ ~Ran_prepare_model(p)
        /\ Unwrap(instance[p]).context.orders # orders[p]
        /\ Unwrap(instance[p]).context.liquidity # Unwrap(auction[p]).liquidity
        /\ Unwrap(Unwrap(instance[p]).model.metadata).gas_price
                # Some(Unwrap(auction[p]).gas_price)
        /\ Unwrap(Unwrap(instance[p]).model.metadata).auction_id = Some(AuctionId(p))

\* C3: a call that takes the guard while the slot is empty or holds another
\* id starts a compilation (both services called), and when the compilation
\* ends the slot holds the entry of the call's id.
C3_MissCompilesAndReplaces ==
    [][\A p \in Callers :
        /\ (pc[p] = "lock" /\ pc'[p] # "lock" /\ ~SlotHolds(AuctionId(p)))
            => pc'[p] = "join" /\ Ran_prepare_model(p)'
        /\ (pc[p] = "join" /\ pc'[p] # "join")
            => /\ pc'[p] \in {"engine", "done"}
               /\ instance_cache' # None
               /\ Unwrap(instance_cache').solve_id = AuctionId(p)
               /\ lock_holder' = None]_vars

\* an id compiled, replaced by another id, and compiled again
C3_Witness ==
    \E p, q \in Callers :
        /\ p # q /\ PastCache(p) /\ PastCache(q) /\ AuctionId(p) = AuctionId(q)
        /\ Ran_prepare_model(p) /\ Ran_prepare_model(q)
        /\ stale[q] /\ ~stale[p]
        /\ SlotHolds(AuctionId(p))

\* the (id, model, context) a compilation of auction a stores
EntryOf(a) ==
    [solve_id |-> a.id, model |-> Compilation(a).value.model,
     context |-> Compilation(a).value.context]

\* C4: the slot is empty or holds the id, model and context of one
\* compilation of an auction with that id; the model's metadata carries the
\* entry's id.
C4_SlotIsOneCompilation ==
    \/ instance_cache = None
    \/ /\ Len(instance_cache) = 1
       /\ Unwrap(Unwrap(instance_cache).model.metadata).auction_id
            = Some(Unwrap(instance_cache).solve_id)
       /\ \E a \in Auctions : ~NothingToSolve(a) /\ Unwrap(instance_cache) = EntryOf(a)

\* the slot refilled after an entry of another id, with other orders, was
\* replaced
C4_Witness ==
    /\ instance_cache # None
    /\ \E p \in Callers :
        /\ stale[p]
        /\ Unwrap(instance[p]).context # Unwrap(instance_cache).context
        /\ Unwrap(instance[p]).model # Unwrap(instance_cache).model

\* C5: a call that leaves the cache block when its deadline is before the
\* current instant returns an error and has invoked neither the engine nor
\* the conversion.
C5_PastDeadlineFails ==
    [][\A p \in Callers :
        (pc[p] \in {"lock", "join"} /\ pc'[p] \notin {"lock", "join"}
            /\ Unwrap(auction[p]).deadline < now)
        => /\ pc'[p] = "done"
           /\ result'[p] = Some(Err("no time left to send request"))
           /\ calls'[p].engine = 0 /\ calls'[p].convert = 0
           /\ settled'[p] = None]_vars

\* a call that compiled and then failed on its deadline
C5_Witness ==
    \E p \in Callers :
        /\ pc[p] = "done"
        /\ result[p] = Some(Err("no time left to send request"))
        /\ Ran_prepare_model(p) /\ calls[p].engine = 0
        /\ now > 0

\* C6: the budget of every engine request is greater than zero.
C6_BudgetPositive ==
    \A p \in Callers : calls[p].engine > 0 /\ timeout[p] # None => Unwrap(timeout[p]) > 0

\* C7: a call whose order list is empty has returned Ok with no settlement
\* and has called no collaborator, and its step leaves the slot and the
\* guard as they were.
C7_NoOrdersNoWork ==
    /\ [](\A p \in Callers :
            (auction[p] # None /\ Unwrap(auction[p]).orders = <<>>)
            => /\ pc[p] = "done"
               /\ result[p] = Some(Ok(<<>>))
               /\ calls[p] = NoCalls
               /\ lock_holder # Some(p))
    /\ [][\A p \in Callers :
            (auction'[p] # auction[p] /\ auction'[p] # None
                /\ Unwrap(auction'[p]).orders = <<>>)
            => instance_cache' = instance_cache /\ lock_holder' = lock_holder]_vars

\* an empty call that returned with a passthrough limit order in its
\* liquidity and its deadline passed, while the slot is filled and another
\* call holds the guard
C7_Witness ==
    \E p, q \in Callers :
        /\ auction[p] # None /\ Unwrap(auction[p]).orders = <<>>
        /\ \E i \in 1 .. Len(Unwrap(auction[p]).liquidity) :
                IsLimitOrder(Unwrap(auction[p]).liquidity[i])
        /\ Unwrap(auction[p]).deadline < now
        /\ pc[p] = "done" /\ result[p] = Some(Ok(<<>>))
        /\ instance_cache # None
        /\ lock_holder = Some(q)

\* C8: a returned Ok holds at most one settlement; after an engine failure
\* the result is an error, after a solution without execution plan it is the
\* empty list and the conversion was not called, and the conversion's answer
\* is returned as the one settlement made of the solution and the bound
\* context, or as an error.
C8_AtMostOneSettlement ==
    /\ [](\A p \in Callers :
            (pc[p] = "done" /\ result[p] # None)
            => /\ Unwrap(result[p]).ok => Len(Unwrap(result[p]).value) <= 1
               /\ settled[p] # None =>
                    IF ~Unwrap(settled[p]).ok
                    THEN ~Unwrap(result[p]).ok /\ calls[p].convert = 0
                    ELSE IF ~Unwrap(settled[p]).value.has_execution_plan
                    THEN result[p] = Some(Ok(<<>>)) /\ calls[p].convert = 0
                    ELSE /\ calls[p].convert = 1
                         /\ Unwrap(result[p]).ok => Len(Unwrap(result[p]).value) = 1)
    /\ [][\A p \in Callers :
            (pc[p] = "convert" /\ pc'[p] = "done")
            => \/ result'[p] = Some(Ok(<<[solution |-> Unwrap(settled[p]).value,
                                         context |-> Unwrap(instance[p]).context]>>))
               \/ result'[p] = Some(Err("conversion failure"))]_vars

\* a call that returned one settlement
C8_Witness ==
    \E p \in Callers :
        /\ pc[p] = "done" /\ result[p] # None /\ Unwrap(result[p]).ok
        /\ Len(Unwrap(result[p]).value) = 1
        /\ calls[p].convert = 1

----------------------------------------------------------------------------
(* Properties of filter_orders_with_insufficient_fees *)

FilterDone == filter.pc = "done" /\ Unwrap(filter.result).ok
Given == {filter.given[i] : i \in 1 .. Len(filter.given)}
Retained == {filter.orders[i] : i \in 1 .. Len(filter.orders)}
MinCreationTime == utc_now - filter.min_age
GasPrice == Unwrap(filter.estimate).value
Priced(o) == o.sell_token \in DOMAIN filter.external_prices
NativeFee(o) == filter.external_prices[o.sell_token] * o.fee_amount

\* C9: after the filter, every order created at or after now - min_age is
\* still in the collection, whatever its fee and whether or not its fee
\* converts to native units.
C9_YoungOrdersRetained ==
    filter.pc = "done" =>
        \A o \in Given : o.creation_date >= MinCreationTime => o \in Retained

\* C10: after a successful filter, an order created before now - min_age is
\* still in the collection exactly if its fee converts to native units and
\* the native fee is at least the effective gas price divided by the
\* surcharge factor (a comparison that is false for the infinite or NaN
\* quotient of a zero factor).
C10_OldOrdersByFee ==
    FilterDone =>
        \A o \in Given :
            o.creation_date < MinCreationTime =>
                (o \in Retained <=>
                    /\ Priced(o)
                    /\ NativeFee(o) <= F64Range
                    /\ filter.max_gas_surcharge_factor > 0
                    /\ NativeFee(o) * filter.max_gas_surcharge_factor >= GasPrice)

\* an old order kept with a native fee equal to the threshold beside an old
\* order dropped for a fee that does not convert
C10_Witness ==
    /\ FilterDone
    /\ GasPrice > 0
    /\ \E o \in Given :
        /\ o.creation_date < MinCreationTime /\ o \in Retained
        /\ NativeFee(o) * filter.max_gas_surcharge_factor = GasPrice
    /\ \E o \in Given :
        /\ o.creation_date < MinCreationTime /\ o \notin Retained
        /\ ~Priced(o) /\ o.fee_amount > 0

\* s is t with some elements left out: the same values in the same order
RECURSIVE IsSubsequence(_, _)
IsSubsequence(s, t) ==
    IF s = <<>> THEN TRUE
    ELSE IF t = <<>> THEN FALSE
    ELSE IF Head(s) = Head(t) THEN IsSubsequence(Tail(s), Tail(t))
    ELSE IsSubsequence(s, Tail(t))

\* C11: after a successful filter the collection is a subsequence of the
\* collection before the call: no order is added, duplicated or modified,
\* and the kept orders keep their relative order.
C11_FilterKeepsSubsequence ==
    FilterDone =>
        /\ IsSubsequence(filter.orders, filter.given)
        /\ Len(filter.orders) <= Len(filter.given)
        /\ Retained \subseteq Given

\* two different orders were both kept
C11_Witness ==
    /\ FilterDone
    /\ Len(filter.given) = 2 /\ filter.given[1] # filter.given[2]
    /\ filter.orders = filter.given

\* C12: when the gas price estimate cannot be obtained, or now - min_age is
\* not representable, the filter returns an error and the collection is
\* exactly as it was before the call.
C12_ErrorLeavesOrders ==
    (filter.pc = "done" /\ (~Unwrap(filter.estimate).ok \/ filter.min_age > utc_now))
        => /\ ~Unwrap(filter.result).ok
           /\ filter.orders = filter.given

\* the age overflowed with a gas price at hand and an order in the
\* collection whose fee has no price
C12_Witness ==
    /\ filter.pc = "done"
    /\ Unwrap(filter.estimate).ok /\ filter.min_age > utc_now
    /\ ~Unwrap(filter.result).ok
    /\ \E o \in Given : ~Priced(o)

----------------------------------------------------------------------------
(* Properties of compute_fee_connected_tokens *)

\* the tokens at most n pairs away from the tokens of `from`
RECURSIVE ReachWithin(_, _, _)
ReachWithin(pairs, from, n) ==
    IF n = 0 THEN from
    ELSE LET near == ReachWithin(pairs, from, n - 1)
         IN  near \cup {t \in UNION {{pair[1], pair[2]} : pair \in pairs} :
                            \E pair \in pairs, u \in near :
                                {pair[1], pair[2]} = {t, u}}

\* the tokens reachable from R by zero or more pairs
Reach(pairs, R) == ReachWithin(pairs, {R}, Cardinality(pairs))

ScanDone == scan.pc = "done"

\* C13: for every set of pool token pairs and every reference token R the
\* returned set is exactly the set of tokens reachable from R by zero or
\* more pairs; R is always in it.
C13_ExactlyReachable ==
    ScanDone =>
        /\ scan.fee_connected_tokens = Reach(scan.given, scan.native)
        /\ scan.native \in scan.fee_connected_tokens

\* the pairs (R,A), (A,B), (C,D) gave exactly R, A and B
C13_Witness ==
    /\ ScanDone
    /\ scan.native = 0
    /\ scan.given = {TokenPair(0, 1), TokenPair(1, 2), TokenPair(3, 4)}
    /\ scan.fee_connected_tokens = {0, 1, 2}

\* C14: the returned set does not depend on the order in which a pass
\* visits the pairs: every order ends with the set that the passes over
\* one fixed order end with.
C14_ScanOrderIndependent ==
    ScanDone =>
        scan.fee_connected_tokens = FeeConnectedLoop(scan.given, {scan.native})

\* two pairs both used, the second one only in a second pass: the other
\* order uses both in the first pass
C14_Witness ==
    /\ ScanDone
    /\ Cardinality(scan.given) = 2
    /\ scan.pairs = {}
    /\ scan.passes = 2

----------------------------------------------------------------------------
(* Properties of prepare_model *)

\* the (model, context) pairs the runs so far returned
Runs == {Unwrap(r).value : r \in {compiler.first, compiler.second} \ {None}}

\* the tokens reachable from the native token through the pools' pairs
Connected == Reach(PairsOf(compiler.liquidity), native_token)
IsConnected(o) == o.sell_token \in Connected \/ o.buy_token \in Connected

\* the 0-based positions of the connected orders in the list passed
ConnectedPositions ==
    {i - 1 : i \in {j \in 1 .. Len(compiler.orders) : IsConnected(compiler.orders[j])}}

GasModelPassed == [native_token |-> native_token, gas_price |-> compiler.gas_price]

\* C15: an order has an entry in the compiled order table exactly if its
\* sell token or its buy token is connected to the native token.
C15_OrderInTableIffConnected ==
    \A run \in Runs :
        \A i \in 1 .. Len(compiler.orders) :
            (i - 1) \in DOMAIN run.model.orders <=> IsConnected(compiler.orders[i])

\* an order with only its sell token connected and one with only its buy
\* token connected are in the table, an order with neither is not
C15_Witness ==
    \E run \in Runs :
        \E i, j, k \in 1 .. Len(compiler.orders) :
            /\ compiler.orders[i].sell_token \in Connected
            /\ compiler.orders[i].buy_token \notin Connected
            /\ (i - 1) \in DOMAIN run.model.orders
            /\ compiler.orders[j].sell_token \notin Connected
            /\ compiler.orders[j].buy_token \in Connected
            /\ (j - 1) \in DOMAIN run.model.orders
            /\ ~IsConnected(compiler.orders[k])
            /\ (k - 1) \notin DOMAIN run.model.orders

\* C16 as stated: after every compilation the orders of the Settlement
\* Context and the entries of the order table are in one-to-one
\* correspondence: an order dropped from the table is not in the context's
\* list either, and every order of the context has an entry.
C16_ContextMatchesOrderTable ==
    \A run \in Runs :
        /\ Len(run.context.orders) = Cardinality(DOMAIN run.model.orders)
        /\ \A i \in 1 .. Len(run.context.orders) :
                /\ IsConnected(run.context.orders[i])
                /\ (i - 1) \in DOMAIN run.model.orders

\* C16 amended: after every compilation the Settlement Context holds the
\* order list exactly as it was passed, dropped orders included; every key
\* of the order table is a position of that list and its entry is built
\* from the order at that position; the orders of the context without an
\* entry are exactly those with neither token connected.
C16_ContextHoldsAllOrders ==
    \A run \in Runs :
        /\ run.context.orders = compiler.orders
        /\ \A k \in DOMAIN run.model.orders :
                /\ k \in 0 .. (Len(run.context.orders) - 1)
                /\ run.model.orders[k] = OrderModel(run.context.orders[k + 1], GasModelPassed)
        /\ \A i \in 1 .. Len(run.context.orders) :
                (i - 1) \notin DOMAIN run.model.orders <=> ~IsConnected(run.context.orders[i])

\* an order without connection is in the context's list and has no entry,
\* beside an order with an entry
C16_Witness ==
    \E run \in Runs :
        \E i, j \in 1 .. Len(run.context.orders) :
            /\ ~IsConnected(run.context.orders[i])
            /\ (i - 1) \notin DOMAIN run.model.orders
            /\ (j - 1) \in DOMAIN run.model.orders

\* C17 as stated: the keys of the order table are the dense renumbering
\* 0..n-1 of the n retained orders, also when orders were dropped.
C17_DenseOrderKeys ==
    \A run \in Runs :
        DOMAIN run.model.orders = 0 .. (Cardinality(ConnectedPositions) - 1)

\* C17 amended: the keys of the order table are the positions, counted
\* from 0, that the retained orders have in the list passed to the
\* compilation, so they follow the original relative order; each entry is
\* built from the order at its key; the keys are 0..n-1 exactly when no
\* dropped order comes before a retained one.
C17_OrderKeysAreOriginalPositions ==
    \A run \in Runs :
        /\ DOMAIN run.model.orders = ConnectedPositions
        /\ \A k \in DOMAIN run.model.orders :
                run.model.orders[k] = OrderModel(compiler.orders[k + 1], GasModelPassed)
        /\ (DOMAIN run.model.orders = 0 .. (Cardinality(ConnectedPositions) - 1))
            <=> ~(\E i, j \in 1 .. Len(compiler.orders) :
                    /\ i < j
                    /\ ~IsConnected(compiler.orders[i])
                    /\ IsConnected(compiler.orders[j]))

\* a dropped order between two retained ones: the keys 0 and 2
C17_Witness ==
    \E run \in Runs :
        /\ Len(compiler.orders) = 3
        /\ ~IsConnected(compiler.orders[2])
        /\ DOMAIN run.model.orders = {0, 2}
        /\ run.model.orders[0] # run.model.orders[2]

\* the liquidity passed without its passthrough limit orders
PoolsPassed == SelectSeq(compiler.liquidity, LAMBDA l : ~IsLimitOrder(l))

\* C18: prepare_model never fails because of one bad item. A buffer that
\* could not be read, whatever the error, only blanks that token's buffer;
\* a missing or non-finite price only blanks that token's price; an order
\* without connection and a pool whose conversion fails are only left out
\* themselves. Every other token, order and pool is in the model.
C18_BadItemsOnlyDropThemselves ==
    /\ \A r \in {compiler.first, compiler.second} \ {None} : Unwrap(r).ok
    /\ \A run \in Runs :
        /\ DOMAIN run.model.tokens = DOMAIN compiler.token_infos
        /\ \A t \in DOMAIN run.model.tokens :
            /\ run.model.tokens[t].decimals = compiler.token_infos[t].decimals
            /\ run.model.tokens[t].alias = compiler.token_infos[t].symbol
            /\ run.model.tokens[t].internal_buffer =
                    IF compiler.buffers_result[t].ok
                    THEN Some(compiler.buffers_result[t].value) ELSE None
            /\ run.model.tokens[t].external_price =
                    IF t \in DOMAIN compiler.external_prices
                       /\ compiler.external_prices[t] <= F64Range
                    THEN Some(compiler.external_prices[t]) ELSE None
        /\ DOMAIN run.model.orders = ConnectedPositions
        /\ \A j \in 1 .. Len(PoolsPassed) :
            IF AmmModel(PoolsPassed[j], GasModelPassed).ok
            THEN /\ (j - 1) \in DOMAIN run.model.amms
                 /\ run.model.amms[j - 1] = AmmModel(PoolsPassed[j], GasModelPassed).value
            ELSE (j - 1) \notin DOMAIN run.model.amms
        /\ Cardinality(DOMAIN run.model.amms) <= Len(PoolsPassed)

\* one run met a buffer failure of each class, a price out of range, a
\* token without price, an order without connection and a pool that does
\* not convert, and returned a model with the rest
C18_Witness ==
    \E run \in Runs :
        /\ \E t \in DOMAIN compiler.buffers_result :
                compiler.buffers_result[t] = Err("Erc20 transaction failure")
        /\ \E t \in DOMAIN compiler.buffers_result :
                compiler.buffers_result[t] = Err("other")
        /\ \E t \in DOMAIN run.model.tokens : run.model.tokens[t].internal_buffer # None
        /\ \E t \in DOMAIN compiler.external_prices :
                compiler.external_prices[t] > F64Range /\ t \in DOMAIN run.model.tokens
        /\ \E t \in DOMAIN run.model.tokens : t \notin DOMAIN compiler.external_prices
        /\ \E t \in DOMAIN run.model.tokens : run.model.tokens[t].external_price # None
        /\ ConnectedPositions # {}
        /\ Cardinality(ConnectedPositions) < Len(compiler.orders)
        /\ \E j \in 1 .. Len(PoolsPassed) : ~AmmModel(PoolsPassed[j], GasModelPassed).ok
        /\ run.model.amms # <<>>

\* C19: two runs of prepare_model on the same orders, liquidity, prices and
\* gas price, with the services answering the same, return the same model
\* and the same context, in whatever order each run's HashSet hands out
\* the token pairs.
C19_SameInputsSameCompilation ==
    compiler.pc = "done" => compiler.first = compiler.second

\* two runs over three pairs, where a scan order decides how many passes
\* the loop takes, with orders and pools in the model
C19_Witness ==
    /\ compiler.pc = "done"
    /\ Cardinality(PairsOf(compiler.liquidity)) = 3
    /\ compiler.orders # <<>>
    /\ \E run \in Runs : run.model.orders # <<>> /\ run.model.amms # <<>>

\* C20: each key k of the pool table is the position, counted from 0, of
\* that pool in the liquidity list of the Settlement Context: entry k is
\* the conversion of the k-th liquidity source, which is a pool.
C20_PoolKeyIsLiquidityPosition ==
    \A run \in Runs :
        \A k \in DOMAIN run.model.amms :
            /\ k \in 0 .. (Len(run.context.liquidity) - 1)
            /\ ~IsLimitOrder(run.context.liquidity[k + 1])
            /\ AmmModel(run.context.liquidity[k + 1], GasModelPassed) = Ok(run.model.amms[k])

\* C21: each key k of the order table is the position, counted from 0, of
\* that order in the order list passed to the compilation, which is the
\* list the Settlement Context stores: entry k has the sell token, buy
\* token, amounts and flags of the context's order k, also when earlier
\* orders were dropped.
C21_OrderKeyIsContextPosition ==
    \A run \in Runs :
        /\ run.context.orders = compiler.orders
        /\ \A k \in DOMAIN run.model.orders :
            /\ k >= 0 /\ k < Len(run.context.orders)
            /\ LET entry == run.model.orders[k]
                   order == run.context.orders[k + 1]
               IN  /\ entry.sell_token = order.sell_token
                   /\ entry.buy_token = order.buy_token
                   /\ entry.sell_amount = order.sell_amount
                   /\ entry.buy_amount = order.buy_amount
                   /\ entry.allow_partial_fill = order.partially_fillable
                   /\ entry.is_sell_order = (order.kind = "Sell")
                   /\ entry.is_liquidity_order = order.is_liquidity_order

\* the first order was dropped and the second, with other tokens, has the
\* key 1
C21_Witness ==
    \E run \in Runs :
        /\ Len(run.context.orders) >= 2
        /\ ~IsConnected(run.context.orders[1])
        /\ 0 \notin DOMAIN run.model.orders
        /\ 1 \in DOMAIN run.model.orders
        /\ run.model.orders[1].sell_token = run.context.orders[2].sell_token
        /\ run.model.orders[1].sell_token # run.context.orders[1].sell_token

----------------------------------------------------------------------------
(* Properties of HttpSolver::solve: the orders compiled, the order of the
   cache step and the deadline check, the lock *)

\* the number of passthrough limit orders among the first n liquidity sources
RECURSIVE LimitOrdersUpTo(_, _)
LimitOrdersUpTo(liquidity, n) ==
    IF n = 0 THEN 0
    ELSE LimitOrdersUpTo(liquidity, n - 1) + (IF IsLimitOrder(liquidity[n]) THEN 1 ELSE 0)

InSolve(p) == pc[p] \in {"lock", "join", "engine", "convert"}

\* C22: in a solve call with orders, the local order list is the caller's
\* orders followed by every passthrough limit order of the liquidity, in
\* liquidity order; it is the list that is compiled, so the limit orders are
\* orders of the context; and no entry of a pool table comes from a
\* passthrough limit order: entry k is the conversion of the k-th pool.
C22_LimitOrdersAppended ==
    /\ \A p \in Callers :
        InSolve(p) =>
            LET a == Unwrap(auction[p])
                n == Len(a.orders)
            IN  /\ n > 0
                /\ Len(orders[p]) = n + LimitOrdersUpTo(a.liquidity, Len(a.liquidity))
                /\ \A i \in 1 .. n : orders[p][i] = a.orders[i]
                /\ \A i \in 1 .. Len(a.liquidity) :
                        IsLimitOrder(a.liquidity[i]) =>
                            orders[p][n + LimitOrdersUpTo(a.liquidity, i)]
                                = a.liquidity[i].order
                /\ (PastCache(p) /\ Ran_prepare_model(p)) =>
                        /\ Unwrap(instance[p]).context.orders = orders[p]
                        /\ \A i \in 1 .. Len(orders[p]) :
                                (i - 1) \in DOMAIN Unwrap(instance[p]).model.orders
                                <=> \/ orders[p][i].sell_token \in
                                        Reach(PairsOf(a.liquidity), native_token)
                                    \/ orders[p][i].buy_token \in
                                        Reach(PairsOf(a.liquidity), native_token)
    /\ instance_cache # None =>
        LET entry == Unwrap(instance_cache)
            pools == SelectSeq(entry.context.liquidity, LAMBDA l : ~IsLimitOrder(l))
            gas_model == [native_token |-> native_token,
                          gas_price |-> Unwrap(Unwrap(entry.model.metadata).gas_price)]
        IN  \A k \in DOMAIN entry.model.amms :
                /\ k >= 0 /\ k < Len(pools)
                /\ entry.model.amms[k].parameters.kind
                        \in {"ConstantProduct", "WeightedProduct", "Stable"}
                /\ AmmModel(pools[k + 1], gas_model) = Ok(entry.model.amms[k])

\* a call compiled two user orders followed by the two limit orders of its
\* liquidity, which are different and both in the order table
C22_Witness ==
    \E p \in Callers :
        /\ PastCache(p) /\ Ran_prepare_model(p)
        /\ Len(Unwrap(auction[p]).orders) = 2
        /\ Len(orders[p]) = 4
        /\ orders[p][3] # orders[p][4]
        /\ orders[p][3].is_liquidity_order /\ orders[p][4].is_liquidity_order
        /\ {2, 3} \subseteq DOMAIN Unwrap(instance[p]).model.orders
        /\ Unwrap(instance_cache).model.amms # <<>>

Late(p) == Unwrap(auction[p]).deadline < now

\* C23: the cache step comes before the deadline check. A call whose
\* deadline has passed and whose id is not in the slot still starts the
\* compilation; when the compilation ends the call stores the entry of its
\* id and only then fails, having called neither the engine nor the
\* conversion and having changed nothing shared but the slot; and a call
\* that then passes the cache block for that id, the slot still holding it,
\* takes the entry without compiling.
C23_CacheStepBeforeDeadline ==
    [][\A p \in Callers :
        /\ (pc[p] = "lock" /\ pc'[p] # "lock" /\ Late(p) /\ ~SlotHolds(AuctionId(p)))
            => /\ pc'[p] = "join"
               /\ result'[p] = None
               /\ Ran_prepare_model(p)'
        /\ (pc[p] = "join" /\ pc'[p] # "join" /\ Late(p))
            => /\ Ran_prepare_model(p)
               /\ instance_cache' = Some(EntryOf(Unwrap(auction[p])))
               /\ Unwrap(instance_cache').context.orders = orders[p]
               /\ pc'[p] = "done"
               /\ result'[p] = Some(Err("no time left to send request"))
               /\ calls'[p] = calls[p] /\ calls[p].engine = 0 /\ calls[p].convert = 0
               /\ lock_holder' = None
               /\ now' = now /\ settled' = settled /\ timeout' = timeout
               /\ \A q \in Callers \ {p} :
                    /\ pc'[q] = pc[q] /\ auction'[q] = auction[q]
                    /\ orders'[q] = orders[q] /\ instance'[q] = instance[q]
                    /\ result'[q] = result[q] /\ calls'[q] = calls[q]
        /\ (pc[p] = "lock" /\ pc'[p] # "lock" /\ SlotHolds(AuctionId(p)))
            => /\ pc'[p] # "join"
               /\ calls'[p].token_infos = 0 /\ calls'[p].buffers = 0
               /\ Unwrap(instance_cache').solve_id = AuctionId(p)]_vars

\* a call compiled and failed on its deadline, and the other call is bound
\* to the entry in the slot, made from other orders than its own, without
\* having compiled
C23_Witness ==
    \E p, q \in Callers :
        /\ p # q
        /\ pc[p] = "done" /\ result[p] = Some(Err("no time left to send request"))
        /\ Ran_prepare_model(p)
        /\ PastCache(q) /\ ~Ran_prepare_model(q) /\ ~stale[q]
        /\ SlotHolds(AuctionId(q))
        /\ instance[q] = Some([model |-> Unwrap(instance_cache).model,
                               context |-> Unwrap(instance_cache).context])
        /\ Unwrap(instance_cache).context.orders # orders[q]

\* the step in which the call of p returns an error
Fails(p) ==
    /\ InSolve(p)
    /\ pc'[p] = "done"
    /\ result'[p] # None /\ ~Unwrap(result'[p]).ok

\* C24 as stated: a failure after the cache step (deadline passed, engine
\* failure, conversion failure) never clears or alters the slot, and after
\* the failed call for id X the slot holds the entry for X.
C24_FailureKeepsEntryOfId ==
    [][\A p \in Callers :
        Fails(p) =>
            /\ pc[p] # "join" => instance_cache' = instance_cache
            /\ instance_cache' # None
            /\ Unwrap(instance_cache').solve_id = AuctionId(p)]_vars

\* C24 amended: the step in which a call fails after the cache step never
\* clears or alters the slot (a call that fails on its deadline right after
\* compiling leaves the entry it has just written). After a call for id X
\* failed the slot holds an entry, and it is the entry of X that the call
\* was bound to unless a call for another id has stored its entry since the
\* failed call's cache step.
C24_FailureLeavesSlot ==
    [][\A p \in Callers :
        Fails(p) =>
            /\ pc[p] # "join" => instance_cache' = instance_cache
            /\ pc[p] = "join" => instance_cache' = Some(EntryOf(Unwrap(auction[p])))
            /\ instance_cache' # None
            /\ pc[p] \in {"lock", "join"} =>
                    Unwrap(instance_cache').solve_id = AuctionId(p)
            /\ (PastCache(p) /\ ~stale[p]) =>
                    /\ Unwrap(instance_cache').solve_id = AuctionId(p)
                    /\ instance[p] = Some([model |-> Unwrap(instance_cache').model,
                                           context |-> Unwrap(instance_cache').context])
            /\ (PastCache(p) /\ Unwrap(instance_cache').solve_id # AuctionId(p)) => stale[p]]_vars

\* a call whose conversion failed, the slot holding an entry that the other
\* call, still in flight, took without compiling
C24_Witness ==
    \E p, q \in Callers :
        /\ p # q
        /\ pc[p] = "done" /\ result[p] = Some(Err("conversion failure"))
        /\ calls[p].convert = 1
        /\ instance_cache # None
        /\ PastCache(q) /\ ~Ran_prepare_model(q)
        /\ instance[q] = Some([model |-> Unwrap(instance_cache).model,
                               context |-> Unwrap(instance_cache).context])

\* the guard is held exactly by the call that is compiling: it is taken at
\* the cache check, kept through prepare_model and the write, and gone
\* before the deadline check and the engine request
GuardCoversCacheBlock ==
    /\ \A p \in Callers : lock_holder = Some(p) <=> pc[p] = "join"
    /\ \A p, q \in Callers : (pc[p] = "join" /\ pc[q] = "join") => p = q
    /\ \A p \in Callers :
            pc[p] \in {"engine", "convert"}
            => lock_holder # Some(p) /\ calls[p].engine = 1

\* C25 as stated: the guard is held from the cache check through the cache
\* write, the whole compilation included, and released before the deadline
\* check and the engine request; at most one call is compiling; no call
\* invokes the engine holding the guard; and under fair scheduling with
\* answering collaborators every call that waits for the guard gets it.
C25_GuardHeldAndAcquired ==
    /\ []GuardCoversCacheBlock
    /\ \A p \in Callers : (pc[p] = "lock") ~> (pc[p] # "lock")

\* C25 amended: the guard is held from the cache check through the cache
\* write, the whole compilation included, and released before the deadline
\* check and the engine request; at most one call is compiling; no call
\* invokes the engine holding the guard; under fair scheduling with
\* answering collaborators a held guard is always released, so that a
\* waiting call finds the guard free again and again (no deadlock), and it
\* takes the guard unless other calls take it first every time.
C25_GuardHeldAndReleased ==
    /\ []GuardCoversCacheBlock
    /\ \A p \in Callers : (lock_holder = Some(p)) ~> (lock_holder = None)
    /\ \A p \in Callers : []<>(pc[p] # "lock" \/ LockFree)
    /\ \A p \in Callers :
            [](pc[p] = "lock" =>
                (LockFree \/ \E q \in Callers \ {p} : ENABLED Compiled(q)))

\* one call compiles, holding the guard, while the other waits for it
C25_Witness ==
    \E p, q \in Callers :
        /\ pc[p] = "join" /\ lock_holder = Some(p)
        /\ pc[q] = "lock"
        /\ AuctionId(p) = AuctionId(q)

----------------------------------------------------------------------------
(* Termination of compute_fee_connected_tokens *)

\* what is left to do: the passes that may still follow, then the pairs
\* of this pass still to visit
ScanVariant ==
    (Cardinality(scan.given) + 1)
        * (Cardinality(scan.pairs) + (IF scan.added_token THEN 1 ELSE 0))
    + Cardinality(scan.todo)

\* C26: the loop terminates for every finite pair set. Every step of the
\* loop that does not end it brings it closer to its end; a pass that does
\* not end the loop has removed at least one pair, so with n pairs at the
\* start the pass number never exceeds n + 1; and at the end of a pass the
\* loop ends exactly if the pass removed no pair or no pair remains.
C26_LoopTerminates ==
    /\ [](scan.pc = "retain" =>
            /\ scan.passes >= 1
            /\ scan.passes <= Cardinality(scan.given) + 1
            /\ Cardinality(scan.pairs) <= Cardinality(scan.given) - (scan.passes - 1)
            /\ scan.todo \subseteq scan.pairs /\ scan.pairs \subseteq scan.given
            /\ ScanVariant >= 0
            /\ ENABLED NextScan)
    /\ [](ScanDone => scan.passes <= Cardinality(scan.given) + 1)
    /\ [][scan.pc = "retain" =>
            /\ scan'.pc = "done" \/ ScanVariant' < ScanVariant
            /\ scan'.todo # scan.todo /\ scan'.passes = scan.passes =>
                    /\ scan'.pairs \subseteq scan.pairs
                    /\ scan'.added_token <=> (scan.added_token \/ scan'.pairs # scan.pairs)
            /\ scan'.passes # scan.passes =>
                    /\ scan'.passes = scan.passes + 1
                    /\ scan.added_token /\ scan.pairs # {}
                    /\ ~scan'.added_token /\ scan'.todo = scan'.pairs
            /\ scan.todo = {} =>
                    (scan'.pc = "done" <=> (~scan.added_token \/ scan.pairs = {}))]_vars

\* three pairs in a chain visited far end first: three passes, each one
\* removing one pair
C26_Witness ==
    /\ ScanDone
    /\ Cardinality(scan.given) >= 3
    /\ scan.passes = Cardinality(scan.given)
    /\ scan.pairs = {}

====
